---- MODULE Spec2Model ----
(***************************************************************************)
(* Model of the two batch jobs of gold-news-feed:                          *)
(*   update_news_calendar.py  writes news_calendar.csv                     *)
(*   update_macro_signal.py   reads news_calendar.csv, writes              *)
(*                            macro_signal.csv                             *)
(*                                                                         *)
(* Time is counted in minutes since Monday 2025-11-24 00:00 UTC, so that   *)
(* day 0 is a Monday, day 3 is Thanksgiving (2025-11-27) and day 31 is     *)
(* Christmas Day (2025-12-25).  Calendar datetimes have minute resolution  *)
(* in the code ("%Y-%m-%d %H:%M"), so a minute count carries them exactly. *)
(***************************************************************************)
EXTENDS Integers, Sequences, FiniteSets

VARIABLES calFile, calRun, macroFile, macroRun, cls

vars == <<calFile, calRun, macroFile, macroRun, cls>>

(***************************************************************************)
(* Bounds of the model.                                                    *)
(***************************************************************************)
\* longest feed (number of <event> records) a provider response carries
MaxFeed == 2
\* longest price history a provider response carries
MaxLen == 2
\* most rows of a news_calendar.csv found on disk before any job has run
MaxRows == 1

(***************************************************************************)
(* Clock helpers (datetime.weekday(), .hour, .date()).                     *)
(***************************************************************************)
DayOf(t) == t \div (24 * 60)

Weekday(t) == DayOf(t) % 7

HourOf(t) == (t % (24 * 60)) \div 60

(***************************************************************************)
(* update_news_calendar.py                                                 *)
(***************************************************************************)
COUNTRIES == "USD"

SKIP_DAYS == {5, 6}

MIN_REQUEST_HOUR == 2

EVENT_DURATION_MINUTES == 30

\* date_time = "" : the datetime column of a record without date or time.
\* The empty string sorts before every "YYYY-MM-DD HH:MM" string.
NoDate == -1

\* The entries of US_HOLIDAYS_2025 that fall on or after day 0 of the model;
\* every earlier entry is before "today" on every clock reading of the model
\* and is dropped by get_upcoming_holidays.
US_HOLIDAYS_2025 ==
    << [day |-> 3,  name |-> "BANK Thanksgiving"],
       [day |-> 31, name |-> "BANK Christmas Day"] >>

\* "🏦" in title
IsHoliday(title) == title \in {"BANK Thanksgiving", "BANK Christmas Day"}

Event(dt, impact, currency, title) ==
    [dt |-> dt, impact |-> impact, currency |-> currency, title |-> title]

RECURSIVE HolidaysFrom(_, _)
HolidaysFrom(i, today) ==
    IF i > Len(US_HOLIDAYS_2025) THEN << >>
    ELSE LET h == US_HOLIDAYS_2025[i]
         IN  (IF h.day >= today
                 THEN << Event(h.day * 24 * 60, "High", "USD", h.name) >>
                 ELSE << >>) \o HolidaysFrom(i + 1, today)

get_upcoming_holidays(now) == HolidaysFrom(1, DayOf(now))

\* One <event> tag of the feed.  when.kind is
\*   "ok"      date and time present and parseable, when.t the instant;
\*   "missing" date or time absent or empty (date_time = "");
\*   "bad"     date and time present but rejected by strptime (raises).
\* Returns the rows the record contributes to events ( << >> or one row).
ParseRecord(rec) ==
    IF rec.when.kind = "bad" THEN << >>
    ELSE LET date_time == IF rec.when.kind = "ok" THEN rec.when.t ELSE NoDate
         IN  IF rec.country = COUNTRIES /\ (rec.impact = "High" \/ rec.impact = "Moderate")
                THEN << Event(date_time, rec.impact, rec.country, rec.title) >>
                ELSE << >>

RECURSIVE ParseFeed(_)
ParseFeed(feed) ==
    IF feed = << >> THEN << >>
    ELSE ParseRecord(Head(feed)) \o ParseFeed(Tail(feed))

\* resp.kind: "neterr", "http", "timeout" are RequestException subclasses
\* raised by requests.get / raise_for_status; "empty" and "malformed" are
\* status-200 bodies that ET.fromstring rejects; "ok" carries resp.feed.
\* raised = TRUE: an exception leaves fetch_news.
fetch_news(resp) ==
    IF resp.kind \in {"neterr", "http", "timeout"}
       THEN [raised |-> FALSE, events |-> << >>]
    ELSE IF resp.kind \in {"empty", "malformed"}
       THEN [raised |-> TRUE, events |-> << >>]
    ELSE [raised |-> FALSE, events |-> ParseFeed(resp.feed)]

\* KeepEvent with every event kept for its whole day, as holidays are.
KeepEventWholeDay(event, now) ==
    IF event.dt = NoDate THEN TRUE
    ELSE DayOf(event.dt) >= DayOf(now)

\* The keep/drop decision of filter_future_events for one event: an event
\* whose datetime strptime rejects is kept by the except branch.
KeepEvent(event, now) ==
    IF event.dt = NoDate THEN TRUE
    ELSE IF IsHoliday(event.title) THEN DayOf(event.dt) >= DayOf(now)
    ELSE event.dt + EVENT_DURATION_MINUTES >= now

RECURSIVE filter_future_events(_, _)
filter_future_events(events, now) ==
    IF events = << >> THEN << >>
    ELSE (IF KeepEvent(Head(events), now) THEN << Head(events) >> ELSE << >>)
         \o filter_future_events(Tail(events), now)

\* df.sort_values("datetime"): ascending by the datetime string.  Equal keys
\* are left in their original order here; pandas' default sort promises no
\* order among them, and no property below depends on it.
RECURSIVE InsertSorted(_, _)
InsertSorted(e, sorted) ==
    IF sorted = << >> THEN << e >>
    ELSE IF e.dt < Head(sorted).dt THEN << e >> \o sorted
    ELSE << Head(sorted) >> \o InsertSorted(e, Tail(sorted))

RECURSIVE sort_values(_)
sort_values(events) ==
    IF events = << >> THEN << >>
    ELSE InsertSorted(events[Len(events)], sort_values(SubSeq(events, 1, Len(events) - 1)))

\* df.drop_duplicates(subset=["datetime", "title"]): the first row of each
\* (datetime, title) stays.
RECURSIVE drop_duplicates(_)
drop_duplicates(events) ==
    IF events = << >> THEN << >>
    ELSE LET init == SubSeq(events, 1, Len(events) - 1)
             last == events[Len(events)]
         IN  IF \E i \in 1..Len(init) : init[i].dt = last.dt /\ init[i].title = last.title
                THEN drop_duplicates(init)
                ELSE drop_duplicates(init) \o << last >>

\* A file on disk: kind "missing" (no such file), "garbage" (bytes that are
\* no rows of the calendar) or "rows" (a CSV of rows, possibly none).
MissingFile == [kind |-> "missing", rows |-> << >>]

GarbageFile == [kind |-> "garbage", rows |-> << >>]

RowsFile(rows) == [kind |-> "rows", rows |-> rows]

\* DataFrame.to_csv(CSV_PATH, index=False, header=False): replaces the file.
to_csv(old, rows) == RowsFile(rows)

\* No request was sent (the run returned before fetch_news).
NoResp == [kind |-> "none", feed |-> << >>]

\* The local variables of a run of update_news_calendar at its end.
CalLocals(status, now, tnow, resp, fetched, events, filtered) ==
    [status |-> status, now |-> now, tnow |-> tnow, resp |-> resp,
     fetched |-> fetched, events |-> events, filtered |-> filtered]

\* update_news_calendar().  now: the clock at line 143; tnow >= now: the
\* clock read after the fetch by get_upcoming_holidays and
\* filter_future_events; resp: what the provider answers.
update_news_calendar(now, tnow, resp) ==
    /\ UNCHANGED <<macroFile, macroRun, cls>>
    /\ IF Weekday(now) \in SKIP_DAYS
          THEN /\ calRun' = CalLocals("weekend", now, now, NoResp, << >>, << >>, << >>)
               /\ UNCHANGED calFile
       ELSE IF HourOf(now) < MIN_REQUEST_HOUR
          THEN /\ calRun' = CalLocals("early", now, now, NoResp, << >>, << >>, << >>)
               /\ UNCHANGED calFile
       ELSE \E got \in {fetch_news(resp)} :
         IF got.raised
            THEN /\ calRun' = CalLocals("exception", now, now, resp, << >>, << >>, << >>)
                 /\ UNCHANGED calFile
         ELSE \E events \in {got.events \o get_upcoming_holidays(tnow)} :
           IF events = << >>
              THEN /\ calRun' = CalLocals("no_events", now, tnow, resp, got.events, events, << >>)
                   /\ UNCHANGED calFile
           ELSE \E filtered \in {filter_future_events(events, tnow)} :
             IF filtered = << >>
                THEN /\ calRun' = CalLocals("wrote_empty", now, tnow, resp, got.events, events, filtered)
                     /\ calFile' = to_csv(calFile, << >>)
                ELSE /\ calRun' = CalLocals("wrote", now, tnow, resp, got.events, events, filtered)
                     /\ calFile' = to_csv(calFile, drop_duplicates(sort_values(filtered)))

(***************************************************************************)
(* update_macro_signal.py                                                  *)
(***************************************************************************)
HIGH_IMPACT_WINDOW_HOURS == 6

\* Thresholds of main() in thousandths: 0.003, 0.06, 0.005.
DXY_UP == 3

DXY_DOWN == -3

VIX_UP == 60

VIX_DOWN == -60

GOLD_UP == 5

GOLD_DOWN == -5

\* A change ratio: the float n/d (d > 0), or one of the IEEE values a
\* numpy.float64 division by zero yields.
Num(n, d) == [kind |-> "num", n |-> n, d |-> d]

PosInf == [kind |-> "inf", n |-> 0, d |-> 1]

NegInf == [kind |-> "ninf", n |-> 0, d |-> 1]

NaN == [kind |-> "nan", n |-> 0, d |-> 1]

\* What yf.Ticker(ticker).history(...) does: raises, or returns the closes.
Raises == [kind |-> "raise", close |-> << >>]

Hist(close) == [kind |-> "hist", close |-> close]

\* numpy.float64 division (last - first) / first: a zero divisor gives
\* inf, -inf or nan with a RuntimeWarning, not an exception.
Divide(n, d) ==
    IF d > 0 THEN Num(n, d)
    ELSE IF d < 0 THEN Num(-n, -d)
    ELSE IF n > 0 THEN PosInf
    ELSE IF n < 0 THEN NegInf
    ELSE NaN

get_yf_signal(outcome) ==
    IF outcome.kind = "raise" THEN Num(0, 1)
    ELSE IF Len(outcome.close) < 2 THEN Num(0, 1)
    ELSE LET first == outcome.close[1]
             last == outcome.close[Len(outcome.close)]
         IN  Divide(last - first, first)

\* change >= thr and change <= thr, thr in thousandths; every comparison
\* with nan is false.
GreaterEq(change, thr) ==
    IF change.kind = "num" THEN change.n * 1000 >= thr * change.d
    ELSE change.kind = "inf"

LessEq(change, thr) ==
    IF change.kind = "num" THEN change.n * 1000 <= thr * change.d
    ELSE change.kind = "ninf"

\* discrete_signal_from_change with strict comparisons.
discrete_signal_strict(change, threshold_up, threshold_down) ==
    IF ~LessEq(change, threshold_up) /\ change.kind # "nan" THEN 1
    ELSE IF ~GreaterEq(change, threshold_down) /\ change.kind # "nan" THEN -1
    ELSE 0

discrete_signal_from_change(change, threshold_up, threshold_down) ==
    IF GreaterEq(change, threshold_up) THEN 1
    ELSE IF LessEq(change, threshold_down) THEN -1
    ELSE 0

ThresholdUp(i) == IF i = 1 THEN DXY_UP ELSE IF i = 2 THEN VIX_UP ELSE GOLD_UP

ThresholdDown(i) == IF i = 1 THEN DXY_DOWN ELSE IF i = 2 THEN VIX_DOWN ELSE GOLD_DOWN

\* The rows of the frame that are inside [now, window_end], after dropna.
Upcoming(rows, now) ==
    { i \in 1..Len(rows) :
        /\ rows[i].dt # NoDate
        /\ rows[i].dt >= now
        /\ rows[i].dt <= now + HIGH_IMPACT_WINDOW_HOURS * 60 }

\* detect_high_impact_event with a time-of-day rule for 12..15 UTC.
detect_with_time_rule(file, now) ==
    IF HourOf(now) \in 12..15 THEN [raised |-> FALSE, flag |-> 1]
    ELSE IF file.kind # "rows" \/ file.rows = << >> THEN [raised |-> FALSE, flag |-> 0]
    ELSE IF Upcoming(file.rows, now) # {} THEN [raised |-> FALSE, flag |-> 1]
    ELSE [raised |-> FALSE, flag |-> 0]

\* detect_high_impact_event without the try/except around the read.
detect_uncaught(file, now) ==
    IF file.kind = "missing" THEN [raised |-> FALSE, flag |-> 0]
    ELSE IF file.kind = "garbage" \/ file.rows = << >> THEN [raised |-> TRUE, flag |-> 0]
    ELSE IF Upcoming(file.rows, now) # {} THEN [raised |-> FALSE, flag |-> 1]
    ELSE [raised |-> FALSE, flag |-> 0]

\* detect_high_impact_event().  raised = TRUE: an exception leaves the
\* function.  A missing file returns before the try; a file of garbage and
\* a file of no rows (EmptyDataError) raise inside the try and are caught.
detect_high_impact_event(file, now) ==
    IF file.kind = "missing" THEN [raised |-> FALSE, flag |-> 0]
    ELSE IF file.kind = "garbage" THEN [raised |-> FALSE, flag |-> 0]
    ELSE IF file.rows = << >> THEN [raised |-> FALSE, flag |-> 0]
    ELSE IF Upcoming(file.rows, now) # {} THEN [raised |-> FALSE, flag |-> 1]
    ELSE [raised |-> FALSE, flag |-> 0]

\* row of main(): timestamp, news_sentiment (in 1/10000), the three
\* signals and the flag.
Row(ts, news_score, sig, flag) == <<ts, news_score, sig[1], sig[2], sig[3], flag>>

\* The write with the file opened in append mode.
WriteOutputAppend(old, row) == Append(old, row)

\* open(OUTPUT, "w") and one f.write: the file becomes the one line.
WriteOutput(old, row) == << row >>

NoSignals == [i \in 1..3 |-> 0]

NoChanges == [i \in 1..3 |-> Num(0, 1)]

NoFetches == [i \in 1..3 |-> "none"]

\* How a fetch ended: "raise", "short" (fewer than 2 closes), "zero_first"
\* (first close 0) or "ok".
FetchClass(outcome) ==
    IF outcome.kind = "raise" THEN "raise"
    ELSE IF Len(outcome.close) < 2 THEN "short"
    ELSE IF outcome.close[1] = 0 THEN "zero_first"
    ELSE "ok"

\* main(), lines 140-141: fetch_headlines never raises (each feed is
\* fetched inside its own try) and aggregate_headline_sentiment returns the
\* clamped weighted mean, here the input news_score.
MainHeadlines(news_score) ==
    /\ macroRun.pc \in {0, 5}
    /\ macroRun' = [macroRun EXCEPT !.pc = 1, !.news = news_score,
                       !.fetch = NoFetches, !.change = NoChanges, !.sig = NoSignals,
                       !.flag = 0, !.ts = 0, !.seen = MissingFile]
    /\ UNCHANGED <<calFile, calRun, macroFile, cls>>

\* main(), lines 143-150: the fetch and classification of ticker i.
MainSignal(i, outcome) ==
    /\ macroRun.pc = i
    /\ LET change == get_yf_signal(outcome)
       IN  macroRun' = [macroRun EXCEPT
                          !.pc = i + 1,
                          !.fetch[i] = FetchClass(outcome),
                          !.change[i] = change,
                          !.sig[i] = discrete_signal_from_change(
                                         change, ThresholdUp(i), ThresholdDown(i))]
    /\ UNCHANGED <<calFile, calRun, macroFile, cls>>

\* main(), lines 152-162: the impact flag, the timestamp and the write.
\* now is the clock of both readings of the step (lines 125 and 155).  An
\* exception leaving detect_high_impact_event would end the run at pc 5
\* before the write.
MainWrite(now) ==
    /\ macroRun.pc = 4
    /\ LET got == detect_high_impact_event(calFile, now)
       IN  IF got.raised
              THEN /\ macroRun' = [macroRun EXCEPT !.pc = 5, !.seen = calFile, !.ts = now]
                   /\ UNCHANGED macroFile
              ELSE /\ macroRun' = [macroRun EXCEPT !.pc = 0, !.seen = calFile, !.ts = now,
                                     !.flag = got.flag,
                                     !.runs = IF @ < 2 THEN @ + 1 ELSE @]
                   /\ macroFile' = WriteOutput(macroFile,
                                       Row(now, macroRun.news, macroRun.sig, got.flag))
    /\ UNCHANGED <<calFile, calRun, cls>>

\* A direct call discrete_signal_from_change(r, up, down).
Classify(r, up, down) ==
    /\ cls' = [r |-> r, up |-> up, down |-> down,
               out |-> discrete_signal_from_change(r, up, down)]
    /\ UNCHANGED <<calFile, calRun, macroFile, macroRun>>

(***************************************************************************)
(* Inputs.                                                                 *)
(***************************************************************************)
At(day, hour, minute) == (day * 24 + hour) * 60 + minute

SeqsUpTo(S, n) == UNION { [1..k -> S] : k \in 0..n }

Rec(title, country, when, impact) ==
    [title |-> title, country |-> country, when |-> when, impact |-> impact]

WhenOk(t) == [kind |-> "ok", t |-> t]

WhenMissing == [kind |-> "missing", t |-> 0]

WhenBad == [kind |-> "bad", t |-> 0]

\* The <event> records a feed of the model is made of.
FeedRecords ==
    { Rec("CPI",  "USD", WhenOk(At(2, 9, 30)),  "High"),
      Rec("NFP",  "USD", WhenOk(At(3, 11, 20)), "Moderate"),
      Rec("CPI",  "USD", WhenMissing,           "High"),
      Rec("FOMC", "USD", WhenBad,               "High"),
      Rec("ECB",  "EUR", WhenOk(At(3, 11, 20)), "High"),
      Rec("PMI",  "USD", WhenOk(At(3, 11, 20)), "Low") }

Responses(records, n) ==
    { [kind |-> k, feed |-> << >>] : k \in {"neterr", "http", "timeout", "empty", "malformed"} }
    \cup { [kind |-> "ok", feed |-> f] : f \in SeqsUpTo(records, n) }

\* Clock readings of the calendar job: Monday 01:00 (too early), Saturday
\* noon, Wednesday 10:00, Thanksgiving 10:00, and Monday 2025-12-29 10:00
\* (no holiday of the table left).
CalNows == { At(0, 1, 0), At(5, 12, 0), At(2, 10, 0), At(3, 10, 0), At(35, 10, 0) }

\* Minutes the fetch may take between the two clock readings of a run.
Lags == {0, 1}

\* Closing prices and the answers of the price provider.
Prices == {0, 1000, 1060}

Outcomes == {Raises} \cup { Hist(c) : c \in SeqsUpTo(Prices, MaxLen) }

\* The one answer the price provider gives in the specification of the flag.
SteadyOutcomes == {Hist(<<1000, 1060>>)}

NewsScores == {0, 3712}

\* Clock readings of the macro-signal job on Wednesday, and one after the
\* last holiday.
MacroNows ==
    { At(2, 11, 0), At(2, 12, 0), At(2, 13, 30), At(2, 14, 0), At(2, 15, 59),
      At(2, 16, 0), At(2, 18, 0), At(35, 11, 0) }

\* Rows a news_calendar.csv found on disk may hold: the file is an input of
\* the macro-signal job, written by whatever ran before it.
CalRows ==
    { Event(dt, ic[1], ic[2], "CPI") :
        dt \in {NoDate, At(2, 15, 59), At(2, 16, 0), At(2, 22, 0), At(2, 22, 1)},
        ic \in {<<"High", "USD">>, <<"Low", "EUR">>} }

InitialCalFiles ==
    {MissingFile, GarbageFile} \cup { RowsFile(rows) : rows \in SeqsUpTo(CalRows, MaxRows) }

(***************************************************************************)
(* Specifications.                                                         *)
(***************************************************************************)
InitWith(files) ==
    /\ calFile \in files
    /\ calRun = CalLocals("none", 0, 0, NoResp, << >>, << >>, << >>)
    /\ macroFile = << >>
    /\ macroRun = [pc |-> 0, runs |-> 0, news |-> 0, fetch |-> NoFetches,
                   change |-> NoChanges, sig |-> NoSignals, flag |-> 0, ts |-> 0,
                   seen |-> MissingFile]
    /\ cls = [r |-> Num(0, 1), up |-> 1, down |-> -1, out |-> 0]

\* Both jobs; the calendar file found at the start is any file.
Init == InitWith(InitialCalFiles)

Headlines == \E s \in {0} : MainHeadlines(s)

FetchDXY == \E o \in SteadyOutcomes : MainSignal(1, o)

FetchVIX == \E o \in SteadyOutcomes : MainSignal(2, o)

FetchGold == \E o \in SteadyOutcomes : MainSignal(3, o)

DetectAndWrite == \E now \in MacroNows : MainWrite(now)

CalendarJob ==
    \E now \in {At(2, 10, 0), At(35, 10, 0)} :
      \E resp \in Responses({Rec("NFP", "USD", WhenOk(At(3, 11, 20)), "Moderate")}, 1) :
        update_news_calendar(now, now, resp)

Next == Headlines \/ FetchDXY \/ FetchVIX \/ FetchGold \/ DetectAndWrite \/ CalendarJob

Spec == Init /\ [][Next]_vars

\* The calendar job alone, from a directory without news_calendar.csv.
InitCalendar == InitWith({MissingFile})

\* Every answer of the calendar provider, feeds up to MaxFeed records.
CalResponses == Responses(FeedRecords, MaxFeed)

\* A run that returns before fetch_news sends no request and reads the
\* clock once.
UpdateNewsCalendar ==
    \E now \in CalNows :
      IF Weekday(now) \in SKIP_DAYS \/ HourOf(now) < MIN_REQUEST_HOUR
         THEN update_news_calendar(now, now, NoResp)
         ELSE \E lag \in Lags :
                \E resp \in CalResponses :
                  update_news_calendar(now, now + lag, resp)

NextCalendar == UpdateNewsCalendar

SpecCalendar == InitCalendar /\ [][NextCalendar]_vars

\* The macro-signal job alone, over every answer of the price provider.
InitMacro == InitWith({MissingFile, RowsFile(<< >>)})

MacroHeadlines == \E s \in NewsScores : MainHeadlines(s)

MacroDXY == \E o \in Outcomes : MainSignal(1, o)

MacroVIX == \E o \in Outcomes : MainSignal(2, o)

MacroGold == \E o \in Outcomes : MainSignal(3, o)

MacroWrite == \E now \in {At(2, 11, 0)} : MainWrite(now)

NextMacro == MacroHeadlines \/ MacroDXY \/ MacroVIX \/ MacroGold \/ MacroWrite

SpecMacro == InitMacro /\ [][NextMacro]_vars

\* Direct calls of the classifier.
MaxRatio == 6

Ratios == { Num(n, 1000) : n \in (-MaxRatio)..MaxRatio }

Thresholds == (-MaxRatio + 2)..(MaxRatio - 2)

ClassifyCall == \E r \in Ratios, up \in Thresholds, down \in Thresholds : Classify(r, up, down)

NextClassify == ClassifyCall

SpecClassify == InitCalendar /\ [][NextClassify]_vars

(***************************************************************************)
(* Properties.                                                             *)
(***************************************************************************)
\* A run of main() has completed and none is under way.
MainDone == macroRun.pc = 0 /\ macroRun.runs > 0

\* The row main() built from its local variables in its latest run.
LastRow == Row(macroRun.ts, macroRun.news, macroRun.sig, macroRun.flag)

\* Field k of the line written to macro_signal.csv by the latest run.
Written(k) == macroFile[Len(macroFile)][k]

RECURSIVE IsSubSeq(_, _)
\* a is b with some elements left out, the rest in the order of b.
IsSubSeq(a, b) ==
    IF a = << >> THEN TRUE
    ELSE IF b = << >> THEN FALSE
    ELSE IF Head(a) = Head(b) THEN IsSubSeq(Tail(a), Tail(b))
    ELSE IsSubSeq(a, Tail(b))

\* C1: if the price fetch raised for any instrument of the basket, the row
\* written by that run carries 0 for every instrument signal.
C1_WholeOrNothing ==
    (MainDone /\ \E i \in 1..3 : macroRun.fetch[i] = "raise")
        => \A i \in 1..3 : Written(2 + i) = 0

\* C2 as stated: after a completed run macro_signal.csv is two lines, a
\* header line and then the data row of the latest run.
C2_HeaderAndOneRow ==
    MainDone => (Len(macroFile) = 2 /\ macroFile[2] = LastRow)

\* C2 amended: after any sequence of completed runs macro_signal.csv is
\* exactly one line, the data row of the latest run, with no header line and
\* no row of an earlier run.
C2_OneRowOfLatestRun ==
    /\ macroRun.runs = 0 => macroFile = << >>
    /\ macroRun.runs > 0 => Len(macroFile) = 1
    /\ MainDone => macroFile = << LastRow >>

\* A second run has replaced the row of the first.
C2_Witness ==
    /\ MainDone
    /\ macroRun.runs = 2
    /\ macroFile = << LastRow >>
    /\ macroRun.sig[1] = 1

\* No row of the calendar file lies inside [now, now + 6 h].
NoEventInHorizon(file, now) ==
    \/ file.kind # "rows"
    \/ \A i \in 1..Len(file.rows) :
         \/ file.rows[i].dt = NoDate
         \/ file.rows[i].dt < now
         \/ file.rows[i].dt > now + 6 * 60

C4_CalendarProximity ==
    (MainDone /\ macroRun.seen.kind = "rows") =>
        (Written(6) = 1 <=>
            \E i \in 1..Len(macroRun.seen.rows) :
              LET e == macroRun.seen.rows[i]
              IN  /\ e.currency = "USD"
                  /\ e.impact \in {"High", "Medium", "Moderate"}
                  /\ e.dt # NoDate
                  /\ macroRun.ts <= e.dt
                  /\ e.dt <= macroRun.ts + 6 * 60)

\* The calendar file holds no data: missing, unreadable or of zero rows.
NoCalendarData(file) == file.kind \in {"missing", "garbage"} \/ file.rows = << >>

\* C5: no run of main() is ended by an exception of
\* detect_high_impact_event, and a run that finds news_calendar.csv missing,
\* unreadable or of zero rows gets flag 0 and writes its row.
C5_AbsentCalendarNeverAborts ==
    /\ macroRun.pc # 5
    /\ (MainDone /\ NoCalendarData(macroRun.seen))
          => (macroRun.flag = 0 /\ macroFile = << LastRow >> /\ Written(6) = 0)

\* main() ran on the zero-row file the calendar job wrote.
C5_Witness ==
    /\ MainDone
    /\ calRun.status = "wrote_empty"
    /\ macroRun.seen = RowsFile(<< >>)
    /\ macroFile = << LastRow >>

\* C6: whatever the calendar feed answers, update_news_calendar ends without
\* an uncaught exception.
C6_ProviderFailureNotFatal == calRun.status # "exception"

\* The feed record is well formed, matches the currency and impact filter
\* and has not ended at the clock reading now.
LiveRecord(rec, now) ==
    /\ rec.when.kind = "ok"
    /\ rec.country = "USD"
    /\ rec.impact \in {"High", "Moderate"}
    /\ rec.when.t + 30 >= now

\* C7: after a run that wrote the calendar, no record of the feed without a
\* usable date and time is in the file (every row has a datetime), and every
\* well-formed matching record that has not ended is.
C7_MalformedSkipped ==
    calRun.status \in {"wrote", "wrote_empty"} =>
        /\ \A i \in 1..Len(calFile.rows) : calFile.rows[i].dt # NoDate
        /\ \A j \in 1..Len(calRun.resp.feed) :
             LET rec == calRun.resp.feed[j]
             IN  LiveRecord(rec, calRun.tnow) =>
                   \E i \in 1..Len(calFile.rows) :
                     calFile.rows[i] = Event(rec.when.t, rec.impact, rec.country, rec.title)

\* r in thousandths, for a call with a ratio of denominator 1000.
ClsRatio == cls.r.n

\* C8: with down < up the classifier returns 1 exactly when r >= up, -1
\* exactly when r <= down and 0 exactly when down < r < up.
C8_InclusiveThresholds ==
    (cls.r.d = 1000 /\ cls.down < cls.up) =>
        /\ cls.out \in {-1, 0, 1}
        /\ cls.out = 1 <=> ClsRatio >= cls.up
        /\ cls.out = -1 <=> ClsRatio <= cls.down
        /\ cls.out = 0 <=> (cls.down < ClsRatio /\ ClsRatio < cls.up)

\* A call with r equal to the upper threshold returned 1.
C8_Witness ==
    /\ cls.r.d = 1000
    /\ cls.down < cls.up
    /\ ClsRatio = cls.up
    /\ cls.out = 1

\* C9: an instrument whose series has fewer than 2 points or whose first
\* close is 0 gets signal 0 in the written row.
C9_DegenerateNeutral ==
    MainDone =>
        \A i \in 1..3 :
          macroRun.fetch[i] \in {"short", "zero_first"} => Written(2 + i) = 0

\* The event, which has a datetime, has ended at the clock reading now: a
\* holiday when its day is over, any other event 30 minutes after its start.
Expired(e, now) ==
    /\ e.dt # NoDate
    /\ IF IsHoliday(e.title) THEN DayOf(e.dt) < DayOf(now) ELSE e.dt + 30 < now

====
